---- MODULE Spec2Model ----
(***************************************************************************)
(* A model of leoverse: the generation orchestrator of pkg/leonardo        *)
(* (GenerateImage, createGeneration, WaitForGeneration), the datastore     *)
(* relay of pkg/airtable (GetPrompts, UpdateRecord, ProcessPrompts,        *)
(* UploadImage) with the handler cmd/leoverse/main.go passes to it, and    *)
(* the in-memory cookie store (NewMemCookieStore, GetCookie, SetCookie).   *)
(*                                                                         *)
(* Three specifications share the variables:                               *)
(*   SpecGen    one call of GenerateImage or WaitForGeneration             *)
(*   SpecRelay  one run of ProcessPrompts with main.go's handler           *)
(*   SpecCookie one cookie store                                           *)
(***************************************************************************)
EXTENDS Integers, Sequences, FiniteSets, TLC

\* ------------------------------------------------------------------ bounds
\* The number of status polls one call may make before the model stops
\* following it (the code polls without bound).
MaxPolls == 3
\* The longest list of generated images a feed response carries.
MaxImages == 2
\* The longest listing the datastore returns.
MaxRecords == 2
\* The most files one generation leaves in the handler's directory.
MaxFiles == 1
\* The longest token of a raw cookie input.
MaxTokenLen == 2

VARIABLES
    \* --- generation orchestrator (pkg/leonardo/image.go)
    gfn,          \* the function called: "GenerateImage" or "WaitForGeneration"
    gpc,          \* its position: "start", "create", "wait", "feed", "done"
    cancelled,    \* ctx.Done() is closed
    timerFired,   \* the channel of time.After(5s) of the current wait is ready
    gcalls,       \* the remote calls issued through c.do, in order
    genID,        \* generationID
    gresp,        \* what c.do handed back for the last call (<<>> before any)
    gerr,         \* the returned error ("pending" while running, "nil" for none)
    gdetail,      \* the status formatted into the returned error with %s ("" if none)
    gurls,        \* the returned assets
    \* --- datastore relay (pkg/airtable/airtable.go, cmd/leoverse/main.go)
    table,        \* the datastore's rows, by record ID 1..n: Generated, Prompt
                  \* and the number of attachments uploaded to the row
    records,      \* the listing ProcessPrompts iterates over
    lreqs,        \* the list requests ProcessPrompts issued for its iteration:
                  \* the offset parameter of each (0 for none)
    rpc,          \* its position: "list", "loop", "handler", "hupload", "post", "done"
    idx,          \* the index of the record the loop is at
    hi,           \* the i of the handler's upload loop
    files,        \* the files image_1.png, image_2.png, ... of the handler's directory
    processedCount,
    skippedCount,
    handled,      \* the indexes of the records handed to the handler, in order
    lastUR,       \* the call of UpdateRecord the last step made (<<>> if none)
    summary,      \* the counts ProcessPrompts printed at its end (<<>> before)
    rret,         \* what ProcessPrompts returned ("pending" while running)
    \* --- cookie store (memCookieStore)
    craw,         \* the raw input NewMemCookieStore is called with
    cpc,          \* "new" before NewMemCookieStore has run, "ready" after
    cookie,       \* memCookieStore.cookie
    cgot,         \* what the last GetCookie returned (<<>> before any)
    \* --- top-level GenerateImage and downloadImage (package leoverse)
    lpc,          \* its position: "start", "gen", "download", "done"
    li,           \* the i of `for i, url := range urls`
    lerr,         \* the returned error ("pending" while running, "nil" for none)
    disk,         \* the files image_1.png, image_2.png, ... of the output
                  \* directory: <<>> for no file, <<content>> for a file
    dlog          \* the calls of downloadImage, in order

gvars == <<gfn, gpc, cancelled, timerFired, gcalls, genID, gresp, gerr, gdetail, gurls>>

rvars == <<table, records, lreqs, rpc, idx, hi, files, processedCount, skippedCount,
           handled, lastUR, summary, rret>>

cvars == <<craw, cpc, cookie, cgot>>

lvars == <<lpc, li, lerr, disk, dlog>>

vars == <<gvars, rvars, cvars, lvars>>

\* ------------------------------------------------ the backend's responses
URLs == {"u1", "u2"}

RECURSIVE SeqsUpTo(_, _)
SeqsUpTo(S, n) ==
    IF n = 0 THEN {<<>>}
    ELSE LET shorter == SeqsUpTo(S, n - 1)
         IN  shorter \cup {Append(s, x) : s \in shorter, x \in S}

ImageLists == SeqsUpTo(URLs, MaxImages)

\* What c.do hands back for the create-job request: a transport/remote error,
\* or a decoded createGenerationResponse whose generationId may be empty.
CreateOutcomes ==
    {[err |-> TRUE, id |-> ""], [err |-> FALSE, id |-> ""], [err |-> FALSE, id |-> "g1"]}

\* What c.do hands back for the status request of GenerateImage: an error, or
\* a statusResponse with zero or one generation carrying a status.
Statuses == {"PENDING", "IN_PROGRESS", "COMPLETE", "FAILED", "CANCELLED"}

StatusOutcomes ==
    {[err |-> TRUE, gens |-> <<>>], [err |-> FALSE, gens |-> <<>>]}
    \cup {[err |-> FALSE, gens |-> <<[status |-> s]>>] : s \in Statuses}

\* What c.do hands back for the feed request: an error, or a feedResponse with
\* zero or one generation carrying a status and its images.
FeedOutcomes ==
    {[err |-> TRUE, gens |-> <<>>], [err |-> FALSE, gens |-> <<>>]}
    \cup {[err |-> FALSE, gens |-> <<[status |-> s, images |-> im]>>] :
            s \in Statuses, im \in ImageLists}

\* ------------------------------------------------------------ pure helpers
NumCalls(log, kind) == Cardinality({i \in 1..Len(log) : log[i] = kind})

\* The cases of `select { case <-ctx.Done(): ...; case <-time.After(5s): }`
\* that are ready; Go's select takes any one of the ready cases.
SelectReadyNoWait(done, timer) ==
    (IF done THEN {"done"} ELSE {}) \cup {"timer"}

SelectReady(done, timer) ==
    (IF done THEN {"done"} ELSE {}) \cup (IF timer THEN {"timer"} ELSE {})

\* createGeneration: its own c.Auth, the create-job call, the empty-ID check.
createGenerationNoIDCheck(authOk, r) ==
    IF ~authOk THEN [id |-> "", err |-> "AuthError", called |-> FALSE]
    ELSE IF r.err THEN [id |-> "", err |-> "CreateError", called |-> TRUE]
    ELSE [id |-> r.id, err |-> "nil", called |-> TRUE]

createGenerationIgnoresError(authOk, r) ==
    IF ~authOk THEN [id |-> "", err |-> "AuthError", called |-> FALSE]
    ELSE IF r.err THEN [id |-> "g1", err |-> "nil", called |-> TRUE]
    ELSE IF r.id = "" THEN [id |-> "", err |-> "ProtocolError", called |-> TRUE]
    ELSE [id |-> r.id, err |-> "nil", called |-> TRUE]

createGeneration(authOk, r) ==
    IF ~authOk THEN [id |-> "", err |-> "AuthError", called |-> FALSE]
    ELSE IF r.err THEN [id |-> "", err |-> "CreateError", called |-> TRUE]
    ELSE IF r.id = "" THEN [id |-> "", err |-> "ProtocolError", called |-> TRUE]
    ELSE [id |-> r.id, err |-> "nil", called |-> TRUE]

\* What GenerateImage does with a decoded status response: "fail" (return
\* generation failed), "break" (leave the loop) or "continue" (wait again).
StatusStepFailedIgnored(gens) ==
    IF Len(gens) > 0 /\ gens[1].status = "COMPLETE" THEN "break" ELSE "continue"

StatusStepOtherFails(gens) ==
    IF Len(gens) > 0
    THEN IF gens[1].status = "COMPLETE" THEN "break"
         ELSE IF gens[1].status \in {"PENDING", "IN_PROGRESS"} THEN "continue"
         ELSE "fail"
    ELSE "continue"

StatusStep(gens) ==
    IF Len(gens) > 0
    THEN IF gens[1].status = "FAILED" THEN "fail"
         ELSE IF gens[1].status = "COMPLETE" THEN "break"
         ELSE "continue"
    ELSE "continue"

\* What GenerateImage returns for a decoded feed response.
FeedResultEmptyIsError(gens) ==
    IF Len(gens) > 0 /\ Len(gens[1].images) > 0
    THEN [urls |-> gens[1].images, err |-> "nil"]
    ELSE [urls |-> <<>>, err |-> "NoAssets"]

FeedResult(gens) ==
    [urls |-> IF Len(gens) > 0 THEN gens[1].images ELSE <<>>, err |-> "nil"]

\* What WaitForGeneration does with a decoded feed response.
WaitStepOtherContinues(gens) ==
    IF Len(gens) > 0 /\ gens[1].status = "COMPLETE" THEN "return" ELSE "continue"

WaitStep(gens) ==
    IF Len(gens) = 0 THEN "continue"
    ELSE IF gens[1].status \in {"PENDING", "IN_PROGRESS"} THEN "continue"
    ELSE IF gens[1].status = "COMPLETE" THEN "return"
    ELSE "fail"

\* -------------------------------------------------- generation orchestrator
GenInit ==
    /\ gfn \in {"GenerateImage", "WaitForGeneration"}
    /\ gpc = IF gfn = "GenerateImage" THEN "start" ELSE "wait"
    /\ cancelled = FALSE
    /\ timerFired = FALSE
    /\ gcalls = <<>>
    /\ genID = IF gfn = "GenerateImage" THEN "" ELSE "g1"
    /\ gresp = <<>>
    /\ gerr = "pending"
    /\ gdetail = ""
    /\ gurls = <<>>

ReturnWith(err, detail, urls) ==
    /\ gpc' = "done"
    /\ gerr' = err
    /\ gdetail' = detail
    /\ gurls' = urls

Return(err, urls) == ReturnWith(err, "", urls)

\* The external cancellation signal (main.go: cancel() on SIGINT/SIGTERM).
Cancel ==
    /\ gpc # "done"
    /\ ~cancelled
    /\ cancelled' = TRUE
    /\ UNCHANGED <<gfn, gpc, timerFired, gcalls, genID, gresp, gerr, gdetail, gurls>>
    /\ UNCHANGED <<rvars, cvars, lvars>>

\* The interval timer of the current wait expires.
TimerFire ==
    /\ gpc = "wait"
    /\ ~timerFired
    /\ timerFired' = TRUE
    /\ UNCHANGED <<gfn, gpc, cancelled, gcalls, genID, gresp, gerr, gdetail, gurls>>
    /\ UNCHANGED <<rvars, cvars, lvars>>

\* GenerateImage, lines 38-41: c.Auth.
GI_Auth ==
    /\ gfn = "GenerateImage"
    /\ gpc = "start"
    /\ \E ok \in BOOLEAN :
        IF ok
        THEN /\ gpc' = "create"
             /\ UNCHANGED <<gerr, gdetail, gurls>>
        ELSE Return("AuthError", <<>>)
    /\ UNCHANGED <<gfn, cancelled, timerFired, gcalls, genID, gresp>>
    /\ UNCHANGED <<rvars, cvars, lvars>>

\* GenerateImage, lines 43-66: createGeneration, then enter the polling loop.
GI_Create ==
    /\ gfn = "GenerateImage"
    /\ gpc = "create"
    /\ \E authOk \in BOOLEAN, r \in CreateOutcomes :
        LET c == createGeneration(authOk, r) IN
        /\ gcalls' = IF c.called THEN Append(gcalls, "create") ELSE gcalls
        /\ gresp' = IF c.called THEN <<r>> ELSE gresp
        /\ IF c.err # "nil"
           THEN /\ Return(c.err, <<>>)
                /\ UNCHANGED genID
           ELSE /\ genID' = c.id
                /\ gpc' = "wait"
                /\ UNCHANGED <<gerr, gdetail, gurls>>
    /\ timerFired' = FALSE
    /\ UNCHANGED <<gfn, cancelled>>
    /\ UNCHANGED <<rvars, cvars, lvars>>

\* GenerateImage, lines 67-90: one iteration of the polling loop: the select,
\* the status request and the handling of its response.
GI_Poll ==
    /\ gfn = "GenerateImage"
    /\ gpc = "wait"
    /\ \E case \in SelectReady(cancelled, timerFired) :
        IF case = "done"
        THEN /\ Return("Canceled", <<>>)
             /\ UNCHANGED <<gcalls, gresp, timerFired>>
        ELSE /\ NumCalls(gcalls, "status") < MaxPolls
             /\ gcalls' = Append(gcalls, "status")
             /\ timerFired' = FALSE
             /\ \E r \in StatusOutcomes :
                 /\ gresp' = <<r>>
                 /\ IF r.err
                    THEN Return("StatusError", <<>>)
                    ELSE CASE StatusStep(r.gens) = "fail" ->
                                Return("GenerationFailed", <<>>)
                           [] StatusStep(r.gens) = "break" ->
                                /\ gpc' = "feed"
                                /\ UNCHANGED <<gerr, gdetail, gurls>>
                           [] OTHER ->
                                UNCHANGED <<gpc, gerr, gdetail, gurls>>
    /\ UNCHANGED <<gfn, cancelled, genID>>
    /\ UNCHANGED <<rvars, cvars, lvars>>

\* GenerateImage, lines 92-120: the feed request and the returned URLs.
GI_Feed ==
    /\ gfn = "GenerateImage"
    /\ gpc = "feed"
    /\ gcalls' = Append(gcalls, "feed")
    /\ \E r \in FeedOutcomes :
        /\ gresp' = <<r>>
        /\ IF r.err
           THEN Return("FeedError", <<>>)
           ELSE Return(FeedResult(r.gens).err, FeedResult(r.gens).urls)
    /\ UNCHANGED <<gfn, cancelled, timerFired, genID>>
    /\ UNCHANGED <<rvars, cvars, lvars>>

\* WaitForGeneration, lines 190-225: one iteration of its polling loop.
WG_Poll ==
    /\ gfn = "WaitForGeneration"
    /\ gpc = "wait"
    /\ \E case \in SelectReady(cancelled, timerFired) :
        IF case = "done"
        THEN /\ Return("Canceled", <<>>)
             /\ UNCHANGED <<gcalls, gresp, timerFired>>
        ELSE /\ NumCalls(gcalls, "feedpoll") < MaxPolls
             /\ gcalls' = Append(gcalls, "feedpoll")
             /\ timerFired' = FALSE
             /\ \E r \in FeedOutcomes :
                 /\ gresp' = <<r>>
                 /\ IF r.err
                    THEN Return("StatusError", <<>>)
                    ELSE CASE WaitStep(r.gens) = "fail" ->
                                ReturnWith("GenerationFailed", r.gens[1].status, <<>>)
                           [] WaitStep(r.gens) = "return" ->
                                Return("nil", r.gens[1].images)
                           [] OTHER ->
                                UNCHANGED <<gpc, gerr, gdetail, gurls>>
    /\ UNCHANGED <<gfn, cancelled, genID>>
    /\ UNCHANGED <<rvars, cvars, lvars>>

GenNext == Cancel \/ TimerFire \/ GI_Auth \/ GI_Create \/ GI_Poll \/ GI_Feed \/ WG_Poll


\* ---------------------------------------------------------- datastore relay
\* A field the record does not carry (the type assertion on it fails).
NoField == "<absent>"

GeneratedValues == {"true", "false", NoField}
PromptValues == {NoField, "", "p", "q"}

\* The rows of a listing. An unchecked flag is absent from the record the
\* datastore sends; an explicit false is tried with the prompt "p" only.
Rows ==
    [generated : GeneratedValues, prompt : {"p"}, attached : {0}]
    \cup [generated : {"true", NoField}, prompt : PromptValues, attached : {0}]

\* The datastore answers a list request with one page of at most PageSize
\* records; a page of the model holds MaxRecords records.
PageSize == MaxRecords

\* A row behind the first page.
LaterRows == {[generated |-> NoField, prompt |-> "p", attached |-> 0]}

\* The tables: at most one page, or a full page and one row behind it.
Tables ==
    SeqsUpTo(Rows, MaxRecords)
    \cup {Append(t, r) : t \in {u \in SeqsUpTo(Rows, MaxRecords) : Len(u) = PageSize},
                         r \in LaterRows}

\* The size limit of UpdateRecord: const maxSize = 5 * 1024 * 1024.
maxSize == 5 * 1024 * 1024

\* Image files: their length in bytes and the byte signature they start with.
Payloads ==
    { [size |-> 0, sig |-> "none"],
      [size |-> 1024, sig |-> "html"],
      [size |-> maxSize, sig |-> "jpeg"],
      [size |-> maxSize + 1, sig |-> "png"] }

FileSets == SeqsUpTo(Payloads, MaxFiles)

\* http.DetectContentType: the MIME type of the signature, as <<type, subtype>>.
DetectContentType(data) ==
    IF data.size = 0 THEN <<"text", "plain">>
    ELSE CASE data.sig = "png" -> <<"image", "png">>
           [] data.sig = "jpeg" -> <<"image", "jpeg">>
           [] data.sig = "gif" -> <<"image", "gif">>
           [] data.sig = "html" -> <<"text", "html">>
           [] OTHER -> <<"application", "octet-stream">>

\* The validation UpdateRecord starts with: "nil" or the error it returns.
ValidateNoSizeLimit(data) ==
    IF data.size = 0 THEN "EmptyImage"
    ELSE IF DetectContentType(data)[1] # "image" THEN "InvalidFormat"
    ELSE "nil"

Validate(data) ==
    IF data.size = 0 THEN "EmptyImage"
    ELSE IF data.size > maxSize THEN "TooLarge"
    ELSE IF DetectContentType(data)[1] # "image" THEN "InvalidFormat"
    ELSE "nil"

\* UpdateRecord(recordID, imageData) on the datastore tbl, where upOk and patchOk
\* say whether the attachment upload and the PATCH of the flag succeed.
UpdateRecordIgnoresUploadFailure(tbl, id, data, upOk, patchOk) ==
    LET base == [id |-> id, data |-> data, uploadSent |-> FALSE, uploadOk |-> FALSE,
                 updateSent |-> FALSE, updateOk |-> FALSE, err |-> "nil",
                 table |-> tbl]
        attached == IF upOk THEN [tbl EXCEPT ![id].attached = @ + 1] ELSE tbl
    IN  IF Validate(data) # "nil" THEN [base EXCEPT !.err = Validate(data)]
        ELSE IF ~patchOk
        THEN [base EXCEPT !.uploadSent = TRUE, !.uploadOk = upOk,
                          !.updateSent = TRUE, !.err = "UpdateError",
                          !.table = attached]
        ELSE [base EXCEPT !.uploadSent = TRUE, !.uploadOk = upOk,
                          !.updateSent = TRUE, !.updateOk = TRUE,
                          !.table = [attached EXCEPT ![id].generated = "true"]]

UpdateRecord(tbl, id, data, upOk, patchOk) ==
    LET base == [id |-> id, data |-> data, uploadSent |-> FALSE, uploadOk |-> FALSE,
                 updateSent |-> FALSE, updateOk |-> FALSE, err |-> "nil",
                 table |-> tbl]
        attached == [tbl EXCEPT ![id].attached = @ + 1]
    IN  IF Validate(data) # "nil" THEN [base EXCEPT !.err = Validate(data)]
        ELSE IF ~upOk
        THEN [base EXCEPT !.uploadSent = TRUE, !.err = "UploadError"]
        ELSE IF ~patchOk
        THEN [base EXCEPT !.uploadSent = TRUE, !.uploadOk = TRUE,
                          !.updateSent = TRUE, !.err = "UpdateError",
                          !.table = attached]
        ELSE [base EXCEPT !.uploadSent = TRUE, !.uploadOk = TRUE,
                          !.updateSent = TRUE, !.updateOk = TRUE,
                          !.table = [attached EXCEPT ![id].generated = "true"]]

\* The record of an UpdateRecord call kept in lastUR.
URCall(u) == [id |-> u.id, data |-> u.data, uploadSent |-> u.uploadSent,
              uploadOk |-> u.uploadOk, updateSent |-> u.updateSent,
              updateOk |-> u.updateOk, err |-> u.err]

\* The datastore's answer to a list request with the offset parameter
\* `offset` (0 for none): the records of the page that starts behind it, with
\* their IDs, and the offset of the next page (0 when there is none).
ListPage(tbl, offset) ==
    LET last == IF Len(tbl) > offset + PageSize THEN offset + PageSize ELSE Len(tbl)
    IN  [records |-> [i \in 1..(last - offset) |->
                        [id |-> offset + i,
                         generated |-> tbl[offset + i].generated,
                         prompt |-> tbl[offset + i].prompt]],
         offset |-> IF last < Len(tbl) THEN last ELSE 0]

\* GetPrompts: one list request without offset; listResp.Records is returned,
\* listResp.Offset is dropped.
GetPromptsFollowsOffset(tbl) ==
    LET first == ListPage(tbl, 0)
    IN  IF first.offset = 0 THEN first.records
        ELSE first.records \o ListPage(tbl, first.offset).records

GetPrompts(tbl) == ListPage(tbl, 0).records

\* UploadImage's search: the ID of the first record whose Prompt is a string
\* equal to prompt, 0 when there is none.
FindByPrompt(recs, prompt) ==
    LET hits == {i \in 1..Len(recs) :
                    recs[i].prompt # NoField /\ recs[i].prompt = prompt}
    IN  IF hits = {} THEN 0
        ELSE recs[CHOOSE i \in hits : \A j \in hits : i <= j].id

\* ProcessPrompts, lines 196-207: what the loop does with a record before it
\* calls the handler.
Examine(rec) ==
    IF rec.generated = "true" THEN "skip_generated"
    ELSE IF rec.prompt = NoField \/ rec.prompt = "" THEN "no_prompt"
    ELSE "process"

\* ProcessPrompts' `continue` after an item failed (handler error, file error,
\* UpdateRecord error): the index the loop goes on with, in a listing of n.
AbortAfterError(i, n) == n + 1

RetryAfterError(i, n) == i

SkipOneAfterError(i, n) == i + 2

ContinueAfterError(i, n) == i + 1

\* The number of UploadImage calls of the handler: for i := 1; i <= 4; i++.
UploadAttempts == 4

RelayInit ==
    /\ table \in Tables
    /\ records = <<>>
    /\ lreqs = <<>>
    /\ rpc = "list"
    /\ idx = 0
    /\ hi = 0
    /\ files = <<>>
    /\ processedCount = 0
    /\ skippedCount = 0
    /\ handled = <<>>
    /\ lastUR = <<>>
    /\ summary = <<>>
    /\ rret = "pending"

\* ProcessPrompts, lines 182-193: the listing.
PP_List ==
    /\ rpc = "list"
    /\ \E ok \in BOOLEAN :
        IF ~ok
        THEN /\ rpc' = "done"
             /\ rret' = "ListError"
             /\ UNCHANGED <<records, idx>>
        ELSE /\ records' = GetPrompts(table)
             /\ IF Len(GetPrompts(table)) = 0
                THEN /\ rpc' = "done"
                     /\ rret' = "nil"
                     /\ UNCHANGED idx
                ELSE /\ rpc' = "loop"
                     /\ idx' = 1
                     /\ UNCHANGED rret
    /\ lreqs' = Append(lreqs, 0)
    /\ lastUR' = <<>>
    /\ UNCHANGED <<table, hi, files, processedCount, skippedCount, handled, summary>>
    /\ UNCHANGED <<gvars, cvars, lvars>>

\* ProcessPrompts, lines 195-212: the head of one iteration, up to the call of
\* the handler.
PP_Examine ==
    /\ rpc = "loop"
    /\ idx <= Len(records)
    /\ LET what == Examine(records[idx]) IN
        /\ skippedCount' = IF what = "skip_generated" THEN skippedCount + 1
                           ELSE skippedCount
        /\ IF what = "process"
           THEN /\ rpc' = "handler"
                /\ handled' = Append(handled, idx)
                /\ UNCHANGED idx
           ELSE /\ idx' = idx + 1
                /\ UNCHANGED <<rpc, handled>>
    /\ lastUR' = <<>>
    /\ UNCHANGED <<table, records, lreqs, hi, files, processedCount, summary, rret>>
    /\ UNCHANGED <<gvars, cvars, lvars>>

\* The handler of main.go, lines 224-243: the temporary directory and the
\* generation with its downloads. It fails (the directory is removed), or it
\* leaves the downloaded files image_1.png, ... in the directory.
H_Generate ==
    /\ rpc = "handler"
    /\ \E ok \in BOOLEAN, fs \in FileSets :
        IF ~ok
        THEN /\ fs = <<>>
             /\ rpc' = "loop"
             /\ idx' = ContinueAfterError(idx, Len(records))
             /\ UNCHANGED <<hi, files>>
        ELSE /\ rpc' = "hupload"
             /\ hi' = 1
             /\ files' = fs
             /\ UNCHANGED idx
    /\ lastUR' = <<>>
    /\ UNCHANGED <<table, records, lreqs, processedCount, skippedCount, handled, summary,
                   rret>>
    /\ UNCHANGED <<gvars, cvars, lvars>>

\* The handler of main.go, lines 246-259: one iteration of its upload loop,
\* a call of UploadImage(prompt, image_<hi>.png) (airtable.go, lines 281-309).
H_Upload ==
    /\ rpc = "hupload"
    /\ \E listOk, upOk, patchOk \in BOOLEAN :
        LET prompt == records[idx].prompt
            id == FindByPrompt(GetPrompts(table), prompt)
        IN  \* ReadFile fails, GetPrompts fails or no record has the prompt:
            \* UploadImage returns an error before UpdateRecord
            IF hi > Len(files) \/ ~listOk \/ id = 0
            THEN /\ upOk /\ patchOk
                 /\ hi <= Len(files) \/ listOk
                 /\ lastUR' = <<>>
                 /\ UNCHANGED table
            ELSE LET u == UpdateRecord(table, id, files[hi], upOk, patchOk) IN
                 /\ u.uploadSent \/ upOk
                 /\ u.updateSent \/ patchOk
                 /\ lastUR' = <<URCall(u)>>
                 /\ table' = u.table
    /\ IF hi < UploadAttempts
       THEN /\ hi' = hi + 1
            /\ UNCHANGED rpc
       ELSE /\ rpc' = "post"
            /\ UNCHANGED hi
    /\ UNCHANGED <<records, lreqs, idx, files, processedCount, skippedCount, handled,
                   summary, rret>>
    /\ UNCHANGED <<gvars, cvars, lvars>>

\* ProcessPrompts, lines 218-273: the rest of the iteration after the handler
\* returned its directory: find the image file, read it, UpdateRecord.
PP_Update ==
    /\ rpc = "post"
    /\ \E fsOk, upOk, patchOk \in BOOLEAN :
        \* (an outcome that is not consulted is fixed, so that each behaviour
        \* of the code is one choice)
        IF ~fsOk \/ Len(files) = 0 \/ files[1].size = 0
        THEN /\ upOk /\ patchOk
             /\ fsOk \/ Len(files) > 0
             /\ lastUR' = <<>>
             /\ idx' = ContinueAfterError(idx, Len(records))
             /\ UNCHANGED <<table, processedCount>>
        ELSE LET u == UpdateRecord(table, records[idx].id, files[1], upOk, patchOk) IN
             /\ u.uploadSent \/ upOk
             /\ u.updateSent \/ patchOk
             /\ lastUR' = <<URCall(u)>>
             /\ table' = u.table
             /\ IF u.err = "nil"
                THEN /\ processedCount' = processedCount + 1
                     /\ idx' = idx + 1
                ELSE /\ idx' = ContinueAfterError(idx, Len(records))
                     /\ UNCHANGED processedCount
    /\ rpc' = "loop"
    /\ files' = <<>>
    /\ hi' = 0
    /\ UNCHANGED <<records, lreqs, skippedCount, handled, summary, rret>>
    /\ UNCHANGED <<gvars, cvars, lvars>>

\* ProcessPrompts, lines 275-278: the summary and the return.
PP_Finish ==
    /\ rpc = "loop"
    /\ idx > Len(records)
    /\ rpc' = "done"
    /\ rret' = "nil"
    /\ summary' = <<[total |-> Len(records), processed |-> processedCount,
                     skipped |-> skippedCount]>>
    /\ lastUR' = <<>>
    /\ UNCHANGED <<table, records, lreqs, idx, hi, files, processedCount, skippedCount,
                   handled>>
    /\ UNCHANGED <<gvars, cvars, lvars>>

RelayNext == PP_List \/ PP_Examine \/ H_Generate \/ H_Upload \/ PP_Update \/ PP_Finish

\* -------------------------------------------------------------- cookie store
\* Strings are sequences of characters.
Q == "\""

\* "accessToken", the JSON name of sessionData.AccessToken.
AccessTokenKey ==
    <<"a", "c", "c", "e", "s", "s", "T", "o", "k", "e", "n">>

\* "expires", the JSON name of sessionData.Expires.
ExpiresKey == <<"e", "x", "p", "i", "r", "e", "s">>

\* "__Secure-next-auth.session-token=", the prefix NewMemCookieStore formats
\* a bare token with.
CookiePrefix ==
    <<"_", "_", "S", "e", "c", "u", "r", "e", "-", "n", "e", "x", "t",
    "-", "a", "u", "t", "h", ".", "s", "e", "s", "s", "i", "o", "n", "-",
    "t", "o", "k", "e", "n", "=">>

HasPrefix(s, c) == Len(s) > 0 /\ s[1] = c

Contains(s, c) == \E i \in 1..Len(s) : s[i] = c

RECURSIVE FindQuote(_, _)
FindQuote(s, i) ==
    IF i > Len(s) THEN 0 ELSE IF s[i] = Q THEN i ELSE FindQuote(s, i + 1)

\* The JSON string that starts at s[i]: its value and the index after it.
ReadString(s, i) ==
    LET j == FindQuote(s, i + 1) IN
    IF i > Len(s) \/ s[i] # Q \/ j = 0
    THEN [ok |-> FALSE, val |-> <<>>, next |-> i]
    ELSE [ok |-> TRUE, val |-> SubSeq(s, i + 1, j - 1), next |-> j + 1]

\* The members "key":"value" of a JSON object from s[i] on, up to the closing
\* brace that ends s; token is the accessToken read so far.
RECURSIVE ParseMembers(_, _, _)
ParseMembers(s, i, token) ==
    LET k == ReadString(s, i)
        v == ReadString(s, k.next + 1)
        t == IF k.val = AccessTokenKey THEN v.val ELSE token
    IN  IF ~k.ok \/ k.next > Len(s) \/ s[k.next] # ":" THEN [ok |-> FALSE, token |-> <<>>]
        ELSE IF ~v.ok \/ v.next > Len(s) THEN [ok |-> FALSE, token |-> <<>>]
        ELSE IF s[v.next] = "}" /\ v.next = Len(s) THEN [ok |-> TRUE, token |-> t]
        ELSE IF s[v.next] = "," THEN ParseMembers(s, v.next + 1, t)
        ELSE [ok |-> FALSE, token |-> <<>>]

\* json.Unmarshal([]byte(cookie), &session) for objects with string members:
\* whether it succeeds, and session.AccessToken.
Unmarshal(s) ==
    IF Len(s) < 2 \/ s[1] # "{" THEN [ok |-> FALSE, token |-> <<>>]
    ELSE IF s = <<"{", "}">> THEN [ok |-> TRUE, token |-> <<>>]
    ELSE ParseMembers(s, 2, <<>>)

\* NewMemCookieStore(cookie): the cookie the store is built with.
NewMemCookieStoreKeepsJSON(raw) ==
    IF ~Contains(raw, "=") THEN CookiePrefix \o raw ELSE raw

NewMemCookieStoreAlwaysFormats(raw) ==
    LET c == IF HasPrefix(raw, "{") /\ Unmarshal(raw).ok
             THEN Unmarshal(raw).token ELSE raw
    IN  CookiePrefix \o c

NewMemCookieStore(raw) ==
    LET c == IF HasPrefix(raw, "{") /\ Unmarshal(raw).ok
             THEN Unmarshal(raw).token ELSE raw
    IN  IF ~Contains(c, "=") THEN CookiePrefix \o c ELSE c

\* memCookieStore.GetCookie: the cookie and the error.
GetCookie(c) ==
    IF c = <<>> THEN [cookie |-> <<>>, err |-> "NotConfigured"]
    ELSE [cookie |-> c, err |-> "nil"]

\* The raw inputs: bare tokens, JSON session blobs and malformed blobs.
TokenChars == {"a", "="}

Tokens == SeqsUpTo(TokenChars, MaxTokenLen)

Member(key, val) == <<Q>> \o key \o <<Q, ":", Q>> \o val \o <<Q>>

Blob1(key, val) == <<"{">> \o Member(key, val) \o <<"}">>

Blob2(k1, v1, k2, v2) ==
    <<"{">> \o Member(k1, v1) \o <<",">> \o Member(k2, v2) \o <<"}">>

RawInputs ==
    Tokens
    \cup {Blob1(AccessTokenKey, t) : t \in Tokens}
    \cup {Blob1(ExpiresKey, t) : t \in Tokens}
    \cup {Blob2(ExpiresKey, <<"a">>, AccessTokenKey, t) : t \in Tokens}
    \cup {Blob2(AccessTokenKey, t, ExpiresKey, <<"a">>) : t \in Tokens}
    \cup {<<"{", "}">>}
    \cup {<<"{">> \o t : t \in Tokens}
    \cup {<<"{">> \o Member(AccessTokenKey, t) : t \in Tokens}

CookieInit ==
    /\ craw \in RawInputs
    /\ cpc = "new"
    /\ cookie = <<>>
    /\ cgot = <<>>

\* leonardo.NewMemCookieStore(cfg.Cookie).
C_New ==
    /\ cpc = "new"
    /\ cookie' = NewMemCookieStore(craw)
    /\ cpc' = "ready"
    /\ UNCHANGED <<craw, cgot>>
    /\ UNCHANGED <<gvars, rvars, lvars>>

\* memCookieStore.GetCookie.
C_Get ==
    /\ cpc \in {"ready", "set"}
    /\ cgot' = <<GetCookie(cookie)>>
    /\ UNCHANGED <<craw, cpc, cookie>>
    /\ UNCHANGED <<gvars, rvars, lvars>>

\* memCookieStore.SetCookie: the cookie is stored as given.
C_Set ==
    /\ cpc \in {"ready", "set"}
    /\ \E c \in Tokens :
        cookie' = c
    /\ cpc' = "set"
    /\ UNCHANGED <<craw, cgot>>
    /\ UNCHANGED <<gvars, rvars, lvars>>

CookieNext == C_New \/ C_Get \/ C_Set

\* ------------------------------------------- top-level GenerateImage
\* The bodies a server sends, as sequences of bytes.
Bodies == {<<>>, <<"x">>, <<"x", "y">>}

\* The content of a file that is in the output directory before the run.
OldContent == <<"o", "l", "d">>

StatusCodes == {200, 404}

\* What the calls of downloadImage meet: http.Get fails (net = FALSE) or
\* hands back a response with a status code and a body; os.Create succeeds or
\* fails; io.Copy copies the whole body (copyOk) or fails after `written`
\* bytes.
DownloadOutcomes ==
    {[net |-> FALSE, status |-> 0, body |-> <<>>, create |-> TRUE,
      copyOk |-> TRUE, written |-> 0]}
    \cup {[net |-> TRUE, status |-> s, body |-> b, create |-> FALSE,
           copyOk |-> TRUE, written |-> 0] : s \in StatusCodes, b \in Bodies}
    \cup {[net |-> TRUE, status |-> s, body |-> b, create |-> TRUE,
           copyOk |-> TRUE, written |-> Len(b)] : s \in StatusCodes, b \in Bodies}
    \cup UNION {{[net |-> TRUE, status |-> s, body |-> b, create |-> TRUE,
                  copyOk |-> FALSE, written |-> w] : w \in 0..Len(b)} :
                s \in StatusCodes, b \in Bodies}

\* os.Create(filename): the file exists afterwards and is empty, whatever it
\* held before.
CreateKeepsContent(old) == IF old = <<>> THEN <<>> ELSE old[1]

Create(old) == <<>>

\* downloadImage(url, filename) on a destination holding `old` (<<>> for no
\* file, <<content>> for a file), meeting the outcome o: the error it returns
\* and the destination afterwards.
downloadImage(old, o) ==
    IF ~o.net THEN [err |-> "FetchError", file |-> old]
    ELSE IF ~o.create THEN [err |-> "CreateError", file |-> old]
    ELSE IF ~o.copyOk
         THEN [err |-> "CopyError",
               file |-> <<Create(old) \o SubSeq(o.body, 1, o.written)>>]
    ELSE [err |-> "nil", file |-> <<Create(old) \o o.body>>]

\* filename := fmt.Sprintf("%s/image_%d.png", outputDir, i+1): the number in
\* the name of the file of loop index i.
ImageNumber(i) == i + 1

\* What the loop does with the error of downloadImage.
DownloadStepIgnoresError(err) == "next"

DownloadStep(err) == IF err # "nil" THEN "return" ELSE "next"

LeoverseInit ==
    /\ lpc = "start"
    /\ li = 0
    /\ lerr = "pending"
    /\ disk \in [1..MaxImages -> {<<>>, <<OldContent>>}]
    /\ dlog = <<>>

\* The call of client.GenerateImage has not started yet.
GenNotStarted ==
    /\ gfn = "GenerateImage" /\ gpc = "idle" /\ cancelled = FALSE
    /\ timerFired = FALSE /\ gcalls = <<>> /\ genID = "" /\ gresp = <<>>
    /\ gerr = "pending" /\ gdetail = "" /\ gurls = <<>>

LReturn(err) ==
    /\ lpc' = "done"
    /\ lerr' = err

\* The proxy URL is parsed, the client built and started; then
\* client.GenerateImage is called.
L_Start ==
    /\ lpc = "start"
    /\ \E proxyOk \in BOOLEAN, startOk \in BOOLEAN :
        IF ~proxyOk THEN LReturn("ProxyError") /\ UNCHANGED gpc
        ELSE IF ~startOk THEN LReturn("StartError") /\ UNCHANGED gpc
        ELSE lpc' = "gen" /\ gpc' = "start" /\ UNCHANGED lerr
    /\ UNCHANGED <<li, disk, dlog>>
    /\ UNCHANGED <<gfn, cancelled, timerFired, gcalls, genID, gresp, gerr, gdetail, gurls>>
    /\ UNCHANGED <<rvars, cvars>>

\* client.GenerateImage has returned.
L_Generated ==
    /\ lpc = "gen"
    /\ gpc = "done"
    /\ IF gerr # "nil" THEN LReturn("GenerateError")
       ELSE lpc' = "download" /\ UNCHANGED lerr
    /\ UNCHANGED <<li, disk, dlog>>
    /\ UNCHANGED <<gvars, rvars, cvars>>

\* One round of the loop over urls: the output directory is made, the URL
\* downloaded to its file.
L_Download ==
    /\ lpc = "download"
    /\ li < Len(gurls)
    /\ \E mkdirOk \in BOOLEAN, o \in DownloadOutcomes :
        IF ~mkdirOk
        THEN LReturn("MkdirError") /\ UNCHANGED <<li, disk, dlog>>
        ELSE LET n == ImageNumber(li)
                 r == downloadImage(disk[n], o)
             IN  /\ disk' = [disk EXCEPT ![n] = r.file]
                 /\ dlog' = Append(dlog, [url |-> gurls[li + 1], number |-> n,
                                          existed |-> disk[n] # <<>>,
                                          met |-> o, err |-> r.err])
                 /\ IF DownloadStep(r.err) = "return"
                    THEN LReturn("DownloadError") /\ UNCHANGED li
                    ELSE li' = li + 1 /\ UNCHANGED <<lpc, lerr>>
    /\ UNCHANGED <<gvars, rvars, cvars>>

\* The loop is over.
L_Return ==
    /\ lpc = "download"
    /\ li >= Len(gurls)
    /\ LReturn("nil")
    /\ UNCHANGED <<li, disk, dlog>>
    /\ UNCHANGED <<gvars, rvars, cvars>>

LeoverseNext ==
    \/ L_Start \/ L_Generated \/ L_Download \/ L_Return
    \/ Cancel \/ TimerFire \/ GI_Auth \/ GI_Create \/ GI_Poll \/ GI_Feed

\* ------------------------------------------------------------- idle values
GenIdle ==
    /\ gfn = "none" /\ gpc = "done" /\ cancelled = FALSE /\ timerFired = FALSE
    /\ gcalls = <<>> /\ genID = "" /\ gresp = <<>> /\ gerr = "pending"
    /\ gdetail = "" /\ gurls = <<>>

RelayIdle ==
    /\ table = <<>> /\ records = <<>> /\ lreqs = <<>> /\ rpc = "done" /\ idx = 0 /\ hi = 0
    /\ files = <<>> /\ processedCount = 0 /\ skippedCount = 0 /\ handled = <<>>
    /\ lastUR = <<>> /\ summary = <<>> /\ rret = "pending"

CookieIdle ==
    /\ craw = <<>> /\ cpc = "idle" /\ cookie = <<>> /\ cgot = <<>>

LeoverseIdle ==
    /\ lpc = "idle" /\ li = 0 /\ lerr = "pending" /\ disk = <<>> /\ dlog = <<>>

InitGen == GenInit /\ RelayIdle /\ CookieIdle /\ LeoverseIdle

InitRelay == RelayInit /\ GenIdle /\ CookieIdle /\ LeoverseIdle

SpecGen == InitGen /\ [][GenNext]_vars

\* The goroutine running the call is scheduled and the 5 s timer of a wait
\* expires: a step of the call that stays possible is taken.
SpecGenFair ==
    /\ InitGen /\ [][GenNext]_vars
    /\ WF_vars(TimerFire)
    /\ WF_vars(GI_Auth) /\ WF_vars(GI_Create)
    /\ WF_vars(GI_Poll) /\ WF_vars(GI_Feed)
    /\ WF_vars(WG_Poll)

InitCookie == CookieInit /\ GenIdle /\ RelayIdle /\ LeoverseIdle

SpecRelay == InitRelay /\ [][RelayNext]_vars

\* The goroutine of ProcessPrompts is scheduled, and every request to the
\* datastore returns within the 30 s timeout of its HTTP client: a step of the
\* loop, of UploadImage or of UpdateRecord that is possible is taken. The
\* generation inside the handler has no such bound (its polling loop has no
\* deadline), so H_Generate carries no fairness. (At most one of the five
\* steps is possible in a state, so one condition on their disjunction says
\* the same as one condition on each.)
SpecRelayFair ==
    /\ InitRelay /\ [][RelayNext]_vars
    /\ WF_vars(PP_List \/ PP_Examine \/ H_Upload \/ PP_Update \/ PP_Finish)

SpecCookie == InitCookie /\ [][CookieNext]_vars

InitLeoverse == LeoverseInit /\ GenNotStarted /\ RelayIdle /\ CookieIdle

SpecLeoverse == InitLeoverse /\ [][LeoverseNext]_vars

\* ================================================================== claims
\* The status polls of a call: the status requests of GenerateImage and the
\* feed requests WaitForGeneration polls with.
NumPolls(log) == NumCalls(log, "status") + NumCalls(log, "feedpoll")

LastCall == IF gcalls = <<>> THEN "none" ELSE gcalls[Len(gcalls)]

\* C1: once the cancellation signal has fired, no step of GenerateImage or
\* WaitForGeneration issues a status request, whatever the state of the
\* interval timer.
C1_NoPollAfterCancel ==
    [][cancelled => NumPolls(gcalls') = NumPolls(gcalls)]_vars

\* C2: when the create-job call succeeded with an empty job ID, GenerateImage
\* has returned a protocol error with no assets, and the create-job request is
\* the only request it issued (no status request, no feed request).
C2_EmptyIDIsProtocolError ==
    (gfn = "GenerateImage" /\ LastCall = "create"
        /\ ~gresp[1].err /\ gresp[1].id = "")
    => /\ gpc = "done"
       /\ gerr = "ProtocolError"
       /\ gurls = <<>>
       /\ gcalls = <<"create">>

C2_Witness ==
    /\ gfn = "GenerateImage" /\ LastCall = "create"
    /\ ~gresp[1].err /\ gresp[1].id = ""
    /\ gpc = "done"

\* C3: when a status poll of GenerateImage observed "FAILED", GenerateImage
\* has returned the generation-failed error with no assets, that poll is the
\* last request it issued, and it issued no feed request.
C3_FailedIsGenerationFailed ==
    (gfn = "GenerateImage" /\ LastCall = "status"
        /\ ~gresp[1].err /\ Len(gresp[1].gens) > 0
        /\ gresp[1].gens[1].status = "FAILED")
    => /\ gpc = "done"
       /\ gerr = "GenerationFailed"
       /\ gurls = <<>>
       /\ NumCalls(gcalls, "feed") = 0

C3_Witness ==
    /\ gfn = "GenerateImage" /\ LastCall = "status"
    /\ ~gresp[1].err /\ Len(gresp[1].gens) > 0
    /\ gresp[1].gens[1].status = "FAILED"
    /\ NumCalls(gcalls, "status") > 1
    /\ gpc = "done"

\* C4: when GenerateImage fetched the feed (which it does only after a poll
\* observed "COMPLETE") and the feed response holds no generation entry, or an
\* entry with no images, it has returned an empty asset list and no error.
ZeroAssets(r) == Len(r.gens) = 0 \/ Len(r.gens[1].images) = 0

C4_EmptyFeedIsEmptySuccess ==
    (gfn = "GenerateImage" /\ LastCall = "feed"
        /\ ~gresp[1].err /\ ZeroAssets(gresp[1]))
    => /\ gpc = "done"
       /\ gerr = "nil"
       /\ gurls = <<>>

C4_WitnessNoEntry ==
    /\ gfn = "GenerateImage" /\ LastCall = "feed"
    /\ ~gresp[1].err /\ Len(gresp[1].gens) = 0
    /\ gpc = "done"

\* ---------------------------------------------------------- relay claims
Completed(rec) == rec.generated = "true"

NoPrompt(rec) == rec.prompt = NoField \/ rec.prompt = ""

\* C5: the summary of ProcessPrompts reports as total the number of listed
\* records, and as skipped at least the number of records that are completed
\* or have no prompt (absent or empty).
ShouldSkip(rec) == Completed(rec) \/ NoPrompt(rec)

C5_SkippedAndTotal ==
    summary # <<>>
    => /\ summary[1].total = Len(records)
       /\ summary[1].skipped
            >= Cardinality({i \in 1..Len(records) : ShouldSkip(records[i])})

\* C6: a step in which UpdateRecord is called with a payload that is empty,
\* larger than 5 MiB or not sniffed as an image returns a validation error,
\* sends neither the attachment upload nor the update, and leaves the
\* datastore (the completed flags with it) as it was.
InvalidPayload(data) ==
    \/ data.size = 0
    \/ data.size > 5 * 1024 * 1024
    \/ DetectContentType(data)[1] # "image"

C6_InvalidPayloadRejected ==
    [][(lastUR' # <<>> /\ InvalidPayload(lastUR'[1].data))
        => /\ lastUR'[1].err \in {"EmptyImage", "TooLarge", "InvalidFormat"}
           /\ ~lastUR'[1].uploadSent
           /\ ~lastUR'[1].updateSent
           /\ table' = table
           /\ processedCount' = processedCount]_vars

C6_Witness ==
    /\ lastUR # <<>>
    /\ lastUR[1].data.size > 5 * 1024 * 1024
    /\ lastUR[1].err = "TooLarge"
    /\ rpc = "loop"

\* C7: once the listing succeeded, ProcessPrompts ends having examined every
\* record and returns no error, and the records it handed to the handler are
\* exactly the pending records with a non-empty prompt, in listing order,
\* whatever failed on the way.
RECURSIVE PendingFrom(_, _)
PendingFrom(recs, i) ==
    IF i > Len(recs) THEN <<>>
    ELSE IF ~Completed(recs[i]) /\ ~NoPrompt(recs[i])
    THEN <<i>> \o PendingFrom(recs, i + 1)
    ELSE PendingFrom(recs, i + 1)

C7_FailuresDoNotAbort ==
    (rpc = "done" /\ rret # "ListError")
    => /\ rret = "nil"
       /\ idx = (IF Len(records) = 0 THEN 0 ELSE Len(records) + 1)
       /\ handled = PendingFrom(records, 1)

C7_Witness ==
    /\ rpc = "done"
    /\ Len(handled) >= 2
    /\ processedCount = 0
    /\ \A i \in 1..Len(table) : table[i].attached = 0

\* C8: at the end of the batch every listed record has been counted once, as
\* processed or as skipped (stated for listings whose records all carry a
\* prompt, where every record not processed is completed or has failed).
C8_EveryItemCounted ==
    (summary # <<>> /\ \A i \in 1..Len(records) : ~NoPrompt(records[i]))
    => summary[1].processed + summary[1].skipped = summary[1].total

\* C9: UpdateRecord sends the update only after the attachment upload
\* succeeded; when the upload fails it sends no update and changes nothing;
\* when the update fails after the upload succeeded it returns an error, the
\* record has the new attachment, its completed flag is as it was before the
\* call, and the step does not count the item as processed.
C9_UploadThenUpdate ==
    [][lastUR' # <<>>
        => LET u == lastUR'[1] IN
           /\ u.updateSent => (u.uploadSent /\ u.uploadOk)
           /\ (u.uploadSent /\ ~u.uploadOk)
                => (~u.updateSent /\ u.err # "nil" /\ table' = table)
           /\ (u.updateSent /\ ~u.updateOk)
                => /\ u.err # "nil"
                   /\ table' = [table EXCEPT ![u.id].attached = @ + 1]
                   /\ processedCount' = processedCount]_vars

C9_Witness ==
    /\ lastUR # <<>>
    /\ lastUR[1].uploadOk /\ lastUR[1].updateSent /\ ~lastUR[1].updateOk
    /\ rpc = "loop"
    /\ table[lastUR[1].id].attached = 1
    /\ table[lastUR[1].id].generated # "true"
    /\ processedCount = 0

\* --------------------------------------------------------- cookie claims
\* C10: a store built from an empty raw input, or from a JSON blob whose
\* access-token field is empty, has no credential: GetCookie returns the
\* not-configured error.
NoCredentialInputs == {<<>>, Blob1(AccessTokenKey, <<>>)}

C10_GetCookieNotConfigured ==
    (cpc = "ready" /\ cgot # <<>> /\ craw \in NoCredentialInputs)
    => cgot[1].err = "NotConfigured"

\* The raw inputs that are a JSON object with an access-token field, each with
\* the value of that field.
TokenBlobs ==
    {[raw |-> Blob1(AccessTokenKey, t), token |-> t] : t \in Tokens}
    \cup {[raw |-> Blob2(ExpiresKey, <<"a">>, AccessTokenKey, t), token |-> t] :
            t \in Tokens}
    \cup {[raw |-> Blob2(AccessTokenKey, t, ExpiresKey, <<"a">>), token |-> t] :
            t \in Tokens}

\* A credential as NewMemCookieStore formats it: as it is when it holds a
\* '=', behind the cookie name otherwise.
Formatted(c) == IF Contains(c, "=") THEN c ELSE CookiePrefix \o c

BareInputs ==
    Tokens
    \cup {<<"{">> \o t : t \in Tokens}
    \cup {<<"{">> \o Member(AccessTokenKey, t) : t \in Tokens}

C12_BareTokenIsPrefixed ==
    (cpc = "ready" /\ craw \in BareInputs)
    => cookie = (IF \E i \in 1..Len(craw) : craw[i] = "="
                 THEN craw ELSE CookiePrefix \o craw)

C12_Witness ==
    /\ cpc = "ready"
    /\ craw = <<"a", "a">>
    /\ cookie = CookiePrefix \o <<"a", "a">>

\* C13 (as claimed): a call of downloadImage whose fetch failed at network
\* level, whose response status is not 2xx, or whose file could not be
\* created or written has returned an error.
C13_BadDownloadIsError ==
    \A k \in 1..Len(dlog) :
        (\/ ~dlog[k].met.net
         \/ dlog[k].met.status \notin 200..299
         \/ ~dlog[k].met.create
         \/ ~dlog[k].met.copyOk)
        => dlog[k].err # "nil"

\* The assets of the feed response the client received.
FeedImages ==
    IF gresp = <<>> \/ gresp[1].gens = <<>> THEN <<>>
    ELSE gresp[1].gens[1].images

\* C14: the URLs client.GenerateImage returned are the feed's, in the feed's
\* order; the k-th call of downloadImage is for the k-th URL and the file
\* image_k.png; no call follows a failed one, after a failed one GenerateImage
\* has returned an error and the files after it are as they were; a run that
\* returned no error has downloaded every URL.
C14_DownloadsInFeedOrder ==
    /\ (gfn = "GenerateImage" /\ gpc = "done" /\ gerr = "nil")
        => gurls = FeedImages
    /\ Len(dlog) <= Len(gurls)
    /\ \A k \in 1..Len(dlog) :
        /\ dlog[k].url = gurls[k]
        /\ dlog[k].number = k
        /\ k < Len(dlog) => dlog[k].err = "nil"
        /\ dlog[k].err # "nil"
            => /\ lpc = "done" /\ lerr = "DownloadError"
               /\ \A n \in (k + 1)..MaxImages : disk[n] \in {<<>>, <<OldContent>>}
    /\ (lpc = "done" /\ lerr = "nil") => Len(dlog) = Len(gurls)

C14_Witness ==
    /\ lpc = "done" /\ lerr = "DownloadError"
    /\ gurls = <<"u2", "u1">>
    /\ Len(dlog) = 1 /\ dlog[1].url = "u2"

\* C15: after a call of downloadImage that was served a body with a 2xx
\* status and returned no error, the destination file holds exactly that
\* body, whether or not a file was there before.
C15_FileHoldsServedBody ==
    \A k \in 1..Len(dlog) :
        (dlog[k].met.net /\ dlog[k].met.status \in 200..299
            /\ dlog[k].err = "nil")
        => disk[dlog[k].number] = <<dlog[k].met.body>>

C15_Witness ==
    /\ Len(dlog) = 1
    /\ dlog[1].existed
    /\ dlog[1].met.status = 200 /\ dlog[1].met.body = <<"x">>
    /\ dlog[1].err = "nil"
    /\ disk[1] = <<<<"x">>>>

\* C16: every remote call GenerateImage issues is appended to the calls made
\* so far, and: a create-job request is the first call; a status request comes
\* after the create-job request, with a non-empty job ID, after no feed
\* request, and consumes one expired interval timer; a feed request comes
\* after no other feed request and directly after a status request that was
\* answered "COMPLETE".
C16_CallsOrdered ==
    [][(gfn = "GenerateImage" /\ gcalls' # gcalls)
        => LET c == gcalls'[Len(gcalls')] IN
           /\ gcalls' = Append(gcalls, c)
           /\ c \in {"create", "status", "feed"}
           /\ c = "create" => gcalls = <<>>
           /\ c = "status"
               => /\ gcalls # <<>> /\ gcalls[1] = "create"
                  /\ genID # ""
                  /\ timerFired /\ ~timerFired'
                  /\ NumCalls(gcalls, "feed") = 0
           /\ c = "feed"
               => /\ NumCalls(gcalls, "feed") = 0
                  /\ LastCall = "status"
                  /\ ~gresp[1].err
                  /\ gresp[1].gens # <<>>
                  /\ gresp[1].gens[1].status = "COMPLETE"]_vars

C16_Witness ==
    /\ gfn = "GenerateImage" /\ gpc = "done" /\ gerr = "nil"
    /\ gcalls = <<"create", "status", "status", "feed">>

\* C17: once a remote call of GenerateImage has returned an error,
\* GenerateImage has returned an error and no assets, and no step issues
\* another remote call.
C17_CallErrorEndsTheRun ==
    /\ []((gfn = "GenerateImage" /\ gresp # <<>> /\ gresp[1].err)
            => (gpc = "done" /\ gurls = <<>>
                /\ gerr \in {"CreateError", "StatusError", "FeedError"}))
    /\ [][(gfn = "GenerateImage" /\ gresp # <<>> /\ gresp[1].err)
            => gcalls' = gcalls]_vars

C17_Witness ==
    /\ gfn = "GenerateImage" /\ gpc = "done"
    /\ gcalls = <<"create", "status", "status">>
    /\ gresp[1].err /\ gerr = "StatusError"

\* A decoded status response that carries "COMPLETE" or "FAILED".
TerminalStatus(r) ==
    ~r.err /\ r.gens # <<>> /\ r.gens[1].status \in {"COMPLETE", "FAILED"}

\* C18: GenerateImage leaves polling only in a step that takes the
\* cancellation signal or that issues a status request answered by an error,
\* "COMPLETE" or "FAILED"; a status request answered by an empty response or
\* another status leaves it polling; and once a status request was answered
\* "COMPLETE" or "FAILED", GenerateImage eventually returns.
C18_PollsUntilTerminal ==
    /\ [][(gfn = "GenerateImage" /\ gpc = "wait" /\ gpc' # "wait")
            => \/ cancelled /\ gcalls' = gcalls /\ gerr' = "Canceled"
               \/ /\ gcalls' = Append(gcalls, "status")
                  /\ gresp'[1].err \/ TerminalStatus(gresp'[1])]_vars
    /\ [][(gfn = "GenerateImage" /\ gpc = "wait" /\ gcalls' # gcalls
            /\ ~gresp'[1].err /\ ~TerminalStatus(gresp'[1]))
            => (gpc' = "wait" /\ gerr' = "pending")]_vars
    /\ (gfn = "GenerateImage" /\ LastCall = "status" /\ TerminalStatus(gresp[1]))
        ~> (gpc = "done")

C18_Witness ==
    /\ gfn = "GenerateImage" /\ gpc = "done" /\ gerr = "GenerationFailed"
    /\ gcalls = <<"create", "status", "status", "status">>
    /\ ~cancelled

\* C19: a record the listing of ProcessPrompts shows with its completed flag
\* true is not handed to the handler, has no attachment uploaded to it, and no
\* call of UpdateRecord sends an upload or an update for its record ID.
C19_CompletedItemUntouched ==
    \A i \in 1..Len(records) :
        records[i].generated = "true"
        => /\ \A k \in 1..Len(handled) : handled[k] # i
           /\ table[records[i].id].attached = 0
           /\ (lastUR # <<>> /\ lastUR[1].id = records[i].id)
               => (~lastUR[1].uploadSent /\ ~lastUR[1].updateSent)

\* C20: in one run of the relay no record has more than one attachment
\* uploaded to it.
C20_AtMostOneUploadPerItem ==
    \A i \in 1..Len(table) : table[i].attached <= 1

\* The handler is called for listed items in increasing listing order, each
\* at most once, and only from the head of an iteration, when no item is in
\* the handler or in its upload.
OneAtATime ==
    /\ [](\A j, k \in 1..Len(handled) : j < k => handled[j] < handled[k])
    /\ [][handled' # handled
            => /\ handled' = Append(handled, idx)
               /\ rpc = "loop" /\ rpc' = "handler"
               /\ files = <<>> /\ hi = 0]_vars
    /\ [][idx' # idx => (idx' > idx /\ rpc' = "loop")]_vars

\* C21 (as claimed): the handler is called at most once per listed item, in
\* listing order, never for an item while an earlier one is unresolved, and
\* ProcessPrompts eventually returns.
C21_OneAtATimeAndTerminates ==
    OneAtATime /\ <>(rpc = "done")

\* C21 (amended): the handler is called at most once per listed item, in
\* listing order, never for an item while an earlier one is unresolved, and
\* ProcessPrompts eventually returns unless a generation the handler started
\* never returns (the run stays in the handler forever).
C21_OneAtATimeAndTerminatesIfHandlerReturns ==
    /\ OneAtATime
    /\ <>(rpc = "done") \/ <>[](rpc = "handler")

C21_Witness ==
    /\ rpc = "done" /\ rret = "nil"
    /\ handled = <<1, 2>>
    /\ summary # <<>>

\* C22: while an item is in the handler's uploads or in the rest of its
\* iteration with a directory that holds no image_ file (the generation
\* succeeded with zero assets), no step calls UpdateRecord, changes a record,
\* counts the item as processed or makes ProcessPrompts return; the handler's
\* uploads stay with the item, and the rest of the iteration goes on to the
\* next item.
C22_ZeroAssetsTolerated ==
    [][(rpc \in {"hupload", "post"} /\ files = <<>>)
        => /\ lastUR' = <<>>
           /\ table' = table
           /\ processedCount' = processedCount
           /\ rret' = "pending"
           /\ files' = <<>>
           /\ rpc = "hupload" => (idx' = idx /\ rpc' \in {"hupload", "post"})
           /\ rpc = "post" => (idx' = idx + 1 /\ rpc' = "loop")]_vars

C22_Witness ==
    /\ rpc = "post" /\ files = <<>> /\ hi = UploadAttempts
    /\ idx = 1 /\ Len(records) = 2
    /\ table[1].generated = NoField /\ table[1].attached = 0

\* The status of a decoded feed response, NoStatus for an error or an empty
\* response.
NoStatus == "<none>"

ObservedStatus(r) ==
    IF r.err \/ r.gens = <<>> THEN NoStatus ELSE r.gens[1].status

\* C23: when WaitForGeneration has returned no error, its last poll was
\* answered "COMPLETE" and it returned that response's assets; a poll
\* answered by an empty response, "PENDING" or "IN_PROGRESS" leaves it
\* polling; once a poll was answered by any other status it has returned an
\* error that carries that status, and no assets.
C23_WaitForGenerationOutcomes ==
    /\ []((gfn = "WaitForGeneration" /\ (gerr = "nil" \/ gurls # <<>>))
            => /\ gpc = "done" /\ gerr = "nil"
               /\ LastCall = "feedpoll"
               /\ ObservedStatus(gresp[1]) = "COMPLETE"
               /\ gurls = gresp[1].gens[1].images)
    /\ [][(gfn = "WaitForGeneration" /\ gcalls' # gcalls /\ ~gresp'[1].err
            /\ ObservedStatus(gresp'[1]) \in {NoStatus, "PENDING", "IN_PROGRESS"})
            => (gpc' = "wait" /\ gerr' = "pending" /\ gurls' = <<>>)]_vars
    /\ []((gfn = "WaitForGeneration" /\ gresp # <<>>
            /\ ObservedStatus(gresp[1])
                \notin {NoStatus, "PENDING", "IN_PROGRESS", "COMPLETE"})
            => /\ gpc = "done" /\ gerr = "GenerationFailed"
               /\ gdetail = gresp[1].gens[1].status
               /\ gurls = <<>>)

C23_Witness ==
    /\ gfn = "WaitForGeneration" /\ gpc = "done"
    /\ gcalls = <<"feedpoll", "feedpoll">>
    /\ gerr = "GenerationFailed" /\ gdetail = "CANCELLED"

\* C24: ProcessPrompts issues at most one list request for its iteration,
\* exactly one once it is past the listing, and none with an offset; its
\* listing holds no record from behind the first page, and the handler is
\* called for no such record.
C24_FirstPageOnly ==
    /\ Len(lreqs) <= 1
    /\ \A k \in 1..Len(lreqs) : lreqs[k] = 0
    /\ rpc \notin {"list", "done"} => Len(lreqs) = 1
    /\ (rpc = "done" /\ rret # "pending") => Len(lreqs) = 1
    /\ \A i \in 1..Len(records) : records[i].id <= PageSize
    /\ \A k \in 1..Len(handled) : records[handled[k]].id <= PageSize

C24_Witness ==
    /\ rpc = "done" /\ rret = "nil"
    /\ Len(table) = PageSize + 1
    /\ Len(records) = PageSize
    /\ Len(handled) = PageSize
    /\ table[PageSize + 1].generated = NoField
    /\ table[PageSize + 1].attached = 0

====
